---------------------------- MODULE Spec2Model ----------------------------
(***************************************************************************)
(* Model of Driver.cpp (green-screen-opencv): the colour histogram, the    *)
(* dominant-colour search and the colour substitution, and their           *)
(* composition createOverlayImage.                                         *)
(*                                                                         *)
(* A cv::Mat is a header (rows, cols) naming a pixel buffer; buffers live  *)
(* in mem, so that a deep copy (clone) and a shared buffer differ.         *)
(* A Vec3b pixel is a function from the channel index 0..DIMS-1 to 0..255. *)
(***************************************************************************)
EXTENDS Integers, FiniteSets, Sequences, TLC

VARIABLES
    pc,        \* position of the caller / of the scan
    mem,       \* pixel buffers: "fg", "bg", "out" -> image
    mem0,      \* mem at entry (history, to state frame conditions)
    mem1,      \* mem after the first replaceMostCommonColor (history)
    output,    \* the buffer the Mat header `output` / `target` names
    hist,      \* the 4x4x4 histogram, CV_32S
    row, col,  \* loop counters of createColorHistogram
    visited,   \* number of executions of the scan's loop body (history)
    r, g, b,   \* the int& r, g, b of findMostCommonColor / mostCommon_*
    entry,     \* <<r, g, b>> at entry (history)
    modZero    \* a modulo by zero has been evaluated (history)

vars == <<pc, mem, mem0, mem1, output, hist, row, col, visited, r, g, b, entry, modZero>>

----------------------------------------------------------------------------
(* Program constants, Driver.cpp:8-13 *)

SIZE == 4
BUCKET_SIZE == 256 \div SIZE
DIMS == 3
RED_PIX == 2
GREEN_PIX == 1
BLUE_PIX == 0

(* Bounds of the model *)

MaxRows == 3        \* rows of a foreground / target image: 0..MaxRows
MaxCols == 3        \* columns of a foreground / target image
MaxRepRows == 2     \* rows of a background / replacement image
MaxRepCols == 2     \* columns of a background / replacement image
MaxCount == 2       \* largest count of a cell of an input histogram

----------------------------------------------------------------------------
(* Pixels and images *)

Vec3b(red, green, blue) ==
    [ch \in 0..(DIMS - 1) |->
        IF ch = RED_PIX THEN red ELSE IF ch = GREEN_PIX THEN green ELSE blue]

\* Colours of the foreground / target images.  With dominant (32,32,32):
\* (10,10,10) matches, (96,10,10) matches on the boundary (|96-32| = 64),
\* (10,97,10) fails on green alone (|97-32| = 65), (200,200,200) fails.
TargetPalette ==
    << Vec3b(10, 10, 10), Vec3b(200, 200, 200), Vec3b(96, 10, 10), Vec3b(10, 97, 10) >>

\* Colours of the background / replacement images: (5,5,5) is itself within
\* the threshold of (32,32,32), (250,128,0) is not.
RepPalette == << Vec3b(5, 5, 5), Vec3b(250, 128, 0) >>

\* What a read outside the replacement's buffer may yield.
Garbage == { Vec3b(5, 5, 5), Vec3b(77, 1, 255) }

\* The image of the given shape whose pixel (i, j) is the colour number
\* (a*i + b*j + c) mod Len(palette) of the palette: uniform images (a = b = 0),
\* stripes, diagonals; every image of at most two pixels.
PatternImage(palette, rows, cols, a, b0, c) ==
    [rows |-> rows, cols |-> cols,
     data |-> [p \in (0..(rows - 1)) \X (0..(cols - 1)) |->
                 palette[((a * p[1] + b0 * p[2] + c) % Len(palette)) + 1]]]

Images(palette, maxRows, maxCols) ==
    { PatternImage(palette, rows, cols, a, b0, c) :
        rows \in 0..maxRows, cols \in 0..maxCols,
        a \in 0..(Len(palette) - 1), b0 \in 0..(Len(palette) - 1),
        c \in 0..(Len(palette) - 1) }

TargetImages == Images(TargetPalette, MaxRows, MaxCols)
RepImages == Images(RepPalette, MaxRepRows, MaxRepCols)

EmptyMat == [rows |-> 0, cols |-> 0, data |-> [p \in {} |-> Vec3b(0, 0, 0)]]

Positions(image) == (0..(image.rows - 1)) \X (0..(image.cols - 1))

ZeroArea(image) == image.rows = 0 \/ image.cols = 0

----------------------------------------------------------------------------
(* createColorHistogram, Driver.cpp:101-113 *)

Cells == (0..(SIZE - 1)) \X (0..(SIZE - 1)) \X (0..(SIZE - 1))

\* Mat hist(3, dims, CV_32S, Scalar::all(0))
ZeroHist == [cell \in Cells |-> 0]

\* Bucket index of an 8-bit channel value -- the mutant divides by SIZE.
BucketBySize(v) == v \div SIZE
Bucket(v) == v \div BUCKET_SIZE

\* The loop body: hist.at<int>(r, g, b)++ for the pixel at (row, col).
HistBody(h, image, i, j) ==
    LET px == image.data[<<i, j>>]
        cell == <<Bucket(px[RED_PIX]), Bucket(px[GREEN_PIX]), Bucket(px[BLUE_PIX])>>
    IN  [h EXCEPT ![cell] = @ + 1]

RECURSIVE HistLoop(_, _, _, _)
HistLoop(h, image, i, j) ==
    IF ~(i < image.rows - 1) THEN h
    ELSE IF ~(j < image.cols - 1) THEN HistLoop(h, image, i + 1, 0)
    ELSE HistLoop(HistBody(h, image, i, j), image, i, j + 1)

CreateColorHistogram(image) == HistLoop(ZeroHist, image, 0, 0)

----------------------------------------------------------------------------
(* findMostCommonColor, Driver.cpp:145-163 *)

\* The test of line 150; the mutant also takes an equal count.
FindUpdatesOnEqual(count, highestValue) == count >= highestValue
FindUpdates(count, highestValue) == count > highestValue

\* The n-th cell of the three nested loops: i outer, j middle, k inner.
ScanCell(n) == <<n \div (SIZE * SIZE), (n \div SIZE) % SIZE, n % SIZE>>

\* The loops from the n-th cell on; best = <<r, g, b>> as they stand.
RECURSIVE FindLoop(_, _, _, _)
FindLoop(n, best, highestValue, h) ==
    IF n = SIZE * SIZE * SIZE THEN best
    ELSE IF FindUpdates(h[ScanCell(n)], highestValue)
         THEN FindLoop(n + 1, ScanCell(n), h[ScanCell(n)], h)
         ELSE FindLoop(n + 1, best, highestValue, h)

\* Lines 160-162: r = r * BUCKET_SIZE + BUCKET_SIZE / 2, and so for g and b.
Midpoint(index) == index * BUCKET_SIZE + BUCKET_SIZE \div 2

\* The values of r, g, b on return, from their values on entry.
FindMostCommonColor(r0, g0, b0, h) ==
    LET best == FindLoop(0, <<r0, g0, b0>>, h[<<0, 0, 0>>], h)
    IN  [n \in 1..3 |-> Midpoint(best[n])]

----------------------------------------------------------------------------
(* replaceMostCommonColor, Driver.cpp:174-189 *)

\* The condition of lines 177-182 (uchar promoted to int: no wrap-around).
Matches(px, r0, g0, b0) ==
    /\ px[RED_PIX] - BUCKET_SIZE <= r0
    /\ px[RED_PIX] + BUCKET_SIZE >= r0
    /\ px[GREEN_PIX] - BUCKET_SIZE <= g0
    /\ px[GREEN_PIX] + BUCKET_SIZE >= g0
    /\ px[BLUE_PIX] - BUCKET_SIZE <= b0
    /\ px[BLUE_PIX] + BUCKET_SIZE >= b0

\* Lines 183-185: the three channel assignments, in order.  The first mutant
\* repeats GREEN_PIX on the third line; the second has += for = (uchar wraps).
ReplacePixelGreenTwice(px, rep) ==
    LET p1 == [px EXCEPT ![RED_PIX] = rep[RED_PIX]]
        p2 == [p1 EXCEPT ![GREEN_PIX] = rep[GREEN_PIX]]
    IN  [p2 EXCEPT ![GREEN_PIX] = rep[GREEN_PIX]]
ReplacePixelAdd(px, rep) ==
    [ch \in DOMAIN px |-> (px[ch] + rep[ch]) % 256]
ReplacePixel(px, rep) ==
    LET p1 == [px EXCEPT ![RED_PIX] = rep[RED_PIX]]
        p2 == [p1 EXCEPT ![GREEN_PIX] = rep[GREEN_PIX]]
    IN  [p2 EXCEPT ![BLUE_PIX] = rep[BLUE_PIX]]

\* replacement.at<Vec3b>(i % replacement.rows, j % replacement.cols),
\* defined when the replacement has a row and a column.
ReplacementAt(replacement, i, j) ==
    replacement.data[<<i % replacement.rows, j % replacement.cols>>]

\* The positions the loops of lines 175-176 visit.
Scanned(target) == (0..(target.rows - 2)) \X (0..(target.cols - 2))

\* The visited positions whose pixel passes the test.
Hits(r0, g0, b0, target) ==
    { p \in Scanned(target) : Matches(target.data[p], r0, g0, b0) }

\* i % replacement.rows or j % replacement.cols is evaluated with a zero
\* divisor: undefined behaviour.
DividesByZero(r0, g0, b0, target, replacement) ==
    ZeroArea(replacement) /\ Hits(r0, g0, b0, target) # {}

\* The target on return.  Every pixel is read and written in its own
\* iteration only, and the replacement is another buffer.
ReplaceMostCommonColor(r0, g0, b0, target, replacement) ==
    [target EXCEPT !.data =
        [p \in DOMAIN target.data |->
            IF p \in Hits(r0, g0, b0, target)
            THEN ReplacePixel(target.data[p], ReplacementAt(replacement, p[1], p[2]))
            ELSE target.data[p]]]

\* The target on return when the reads of the replacement yielded px.
ReplaceWithGarbage(r0, g0, b0, target, px) ==
    [target EXCEPT !.data =
        [p \in DOMAIN target.data |->
            IF p \in Hits(r0, g0, b0, target)
            THEN ReplacePixel(target.data[p], px)
            ELSE target.data[p]]]

----------------------------------------------------------------------------
(* Inputs *)

\* Histograms with at most two non-zero cells, anywhere in the grid.
TwoCellHist(c1, n1, c2, n2) ==
    [cell \in Cells |-> IF cell = c1 THEN n1 ELSE IF cell = c2 THEN n2 ELSE 0]

\* r, g, b as the caller of findMostCommonColor may hold them.
EntryRGB == { <<0, 0, 0>>, <<1, 2, 3>>, <<5, 0, -1>> }

\* Dominant colours handed to replaceMostCommonColor: a bucket midpoint, and
\* two that put a palette colour just inside / just outside the threshold.
Dominants == { <<32, 32, 32>>, <<160, 74, 74>>, <<32, 32, 75>> }

Buffers(fg, bg, out) ==
    [buf \in {"fg", "bg", "out"} |->
        IF buf = "fg" THEN fg ELSE IF buf = "bg" THEN bg ELSE out]

----------------------------------------------------------------------------
(* Steps of createColorHistogram's scan (lines 104-112), one loop test each *)

HistVisit ==
    /\ pc = "scan"
    /\ row < mem["fg"].rows - 1
    /\ col < mem["fg"].cols - 1
    /\ hist' = HistBody(hist, mem["fg"], row, col)
    /\ col' = col + 1
    /\ visited' = visited + 1
    /\ UNCHANGED <<pc, mem, mem0, mem1, output, row, r, g, b, entry, modZero>>

HistNextRow ==
    /\ pc = "scan"
    /\ row < mem["fg"].rows - 1
    /\ ~(col < mem["fg"].cols - 1)
    /\ row' = row + 1
    /\ col' = 0
    /\ UNCHANGED <<pc, mem, mem0, mem1, output, hist, visited, r, g, b, entry, modZero>>

HistReturn ==
    /\ pc = "scan"
    /\ ~(row < mem["fg"].rows - 1)
    /\ pc' = "returned"
    /\ UNCHANGED <<mem, mem0, mem1, output, hist, row, col, visited, r, g, b, entry, modZero>>

----------------------------------------------------------------------------
(* Calls *)

\* Mat output = foreground.clone() (line 130): a new buffer with a copy of
\* the pixels.  The mutant shares the foreground's buffer (Mat output = foreground).
SharedBuffer == "fg"
ClonedBuffer == "out"

Clone ==
    /\ pc = "clone"
    /\ output' = ClonedBuffer
    /\ mem' = [mem EXCEPT ![ClonedBuffer] = mem["fg"]]
    /\ pc' = "hist"
    /\ UNCHANGED <<mem0, mem1, hist, row, col, visited, r, g, b, entry, modZero>>

\* Mat hist = createColorHistogram(foreground) (line 131)
CallCreateColorHistogram ==
    /\ pc = "hist"
    /\ hist' = CreateColorHistogram(mem["fg"])
    /\ pc' = "find"
    /\ UNCHANGED <<mem, mem0, mem1, output, row, col, visited, r, g, b, entry, modZero>>

\* findMostCommonColor(r, g, b, hist)
CallFindMostCommonColor(from, to) ==
    /\ pc = from
    /\ \E found \in { FindMostCommonColor(r, g, b, hist) } :
          r' = found[1] /\ g' = found[2] /\ b' = found[3]
    /\ pc' = to
    /\ UNCHANGED <<mem, mem0, mem1, output, hist, row, col, visited, entry, modZero>>

\* replaceMostCommonColor(r, g, b, target, replacement) runs to its end.
ReplaceReturns(from, to) ==
    /\ pc = from
    /\ ~DividesByZero(r, g, b, mem[output], mem["bg"])
    /\ mem' = [mem EXCEPT ![output] =
                  ReplaceMostCommonColor(r, g, b, mem[output], mem["bg"])]
    /\ mem1' = IF from = "call2" THEN mem1 ELSE mem'
    /\ pc' = to
    /\ UNCHANGED <<mem0, output, hist, row, col, visited, r, g, b, entry, modZero>>

\* ... divides by zero at its first hit and the process is killed (SIGFPE,
\* or a fault on the read that follows): nothing has been written.
ReplaceCrashes(from) ==
    /\ pc = from
    /\ DividesByZero(r, g, b, mem[output], mem["bg"])
    /\ modZero' = TRUE
    /\ pc' = "crashed"
    /\ UNCHANGED <<mem, mem0, mem1, output, hist, row, col, visited, r, g, b, entry>>

\* ... divides by zero where that yields a number, reads outside the
\* replacement's buffer and goes on.
ReplaceReadsGarbage(from, to) ==
    /\ pc = from
    /\ DividesByZero(r, g, b, mem[output], mem["bg"])
    /\ modZero' = TRUE
    /\ \E px \in Garbage :
          mem' = [mem EXCEPT ![output] = ReplaceWithGarbage(r, g, b, mem[output], px)]
    /\ mem1' = IF from = "call2" THEN mem1 ELSE mem'
    /\ pc' = to
    /\ UNCHANGED <<mem0, output, hist, row, col, visited, r, g, b, entry>>

----------------------------------------------------------------------------
(* createOverlayImage(foreground, background), lines 126-135 *)

Init ==
    /\ pc = "clone"
    /\ \E fg \in TargetImages, bg \in RepImages : mem = Buffers(fg, bg, EmptyMat)
    /\ mem0 = mem
    /\ mem1 = mem
    /\ output = "none"
    /\ hist = ZeroHist
    /\ row = 0 /\ col = 0 /\ visited = 0
    /\ r = 0 /\ g = 0 /\ b = 0
    /\ entry = <<0, 0, 0>>
    /\ modZero = FALSE

Next ==
    \/ Clone
    \/ CallCreateColorHistogram
    \/ CallFindMostCommonColor("find", "replace")
    \/ ReplaceReturns("replace", "done")
    \/ ReplaceCrashes("replace")
    \/ ReplaceReadsGarbage("replace", "done")

Spec == Init /\ [][Next]_vars

(* createColorHistogram(image) on its own, step by step *)

InitHist ==
    /\ pc = "scan"
    /\ \E image \in TargetImages : mem = Buffers(image, EmptyMat, EmptyMat)
    /\ mem0 = mem
    /\ mem1 = mem
    /\ output = "none"
    /\ hist = ZeroHist
    /\ row = 0 /\ col = 0 /\ visited = 0
    /\ r = 0 /\ g = 0 /\ b = 0
    /\ entry = <<0, 0, 0>>
    /\ modZero = FALSE

NextHist == HistVisit \/ HistNextRow \/ HistReturn

SpecHist == InitHist /\ [][NextHist]_vars

(* findMostCommonColor(r, g, b, hist) on its own *)

InitFind ==
    /\ pc = "find"
    /\ mem = Buffers(EmptyMat, EmptyMat, EmptyMat)
    /\ mem0 = mem
    /\ mem1 = mem
    /\ output = "none"
    /\ \E c1 \in Cells, c2 \in Cells, n1 \in 0..MaxCount, n2 \in 0..MaxCount :
          hist = TwoCellHist(c1, n1, c2, n2)
    /\ row = 0 /\ col = 0 /\ visited = 0
    /\ entry \in EntryRGB
    /\ r = entry[1] /\ g = entry[2] /\ b = entry[3]
    /\ modZero = FALSE

NextFind == CallFindMostCommonColor("find", "found")

SpecFind == InitFind /\ [][NextFind]_vars

(* replaceMostCommonColor(r, g, b, target, replacement) on its own, called *)
(* once and then again with the same arguments                             *)

InitReplace ==
    /\ pc = "call1"
    /\ \E target \in TargetImages, replacement \in RepImages :
          mem = Buffers(EmptyMat, replacement, target)
    /\ mem0 = mem
    /\ mem1 = mem
    /\ output = "out"
    /\ hist = ZeroHist
    /\ row = 0 /\ col = 0 /\ visited = 0
    /\ entry \in Dominants
    /\ r = entry[1] /\ g = entry[2] /\ b = entry[3]
    /\ modZero = FALSE

NextReplace ==
    \/ ReplaceReturns("call1", "call2")
    \/ ReplaceCrashes("call1")
    \/ ReplaceReadsGarbage("call1", "call2")
    \/ ReplaceReturns("call2", "done")
    \/ ReplaceCrashes("call2")
    \/ ReplaceReadsGarbage("call2", "done")

SpecReplace == InitReplace /\ [][NextReplace]_vars

----------------------------------------------------------------------------
(* Vocabulary of the properties, independent of the operators above *)

Abs(x) == IF x < 0 THEN -x ELSE x

\* |value - dominant| <= 64 on each of the three channels; dom = <<r, g, b>>.
WithinThreshold(px, dom) ==
    /\ Abs(px[2] - dom[1]) <= 64
    /\ Abs(px[1] - dom[2]) <= 64
    /\ Abs(px[0] - dom[3]) <= 64

\* red in [64i, 64(i+1)), green in [64j, 64(j+1)), blue in [64k, 64(k+1)).
InCell(px, cell) ==
    /\ 64 * cell[1] <= px[2] /\ px[2] < 64 * (cell[1] + 1)
    /\ 64 * cell[2] <= px[1] /\ px[1] < 64 * (cell[2] + 1)
    /\ 64 * cell[3] <= px[0] /\ px[0] < 64 * (cell[3] + 1)

\* The histogram of the whole image.
WholeHistogram(image) ==
    [cell \in Cells |->
        Cardinality({ p \in Positions(image) : InCell(image.data[p], cell) })]

\* Place of a cell in the scan order red-outer / green-middle / blue-inner.
Rank(cell) == 16 * cell[1] + 4 * cell[2] + cell[3]

IsMaxCount(h, n) == (\E c \in Cells : h[c] = n) /\ (\A c \in Cells : h[c] <= n)

\* The cells that hold the maximum count, and the first in scan order.
MaxCells(h) == { c \in Cells : IsMaxCount(h, h[c]) }

FirstMaxCell(h) ==
    CHOOSE c \in MaxCells(h) : \A d \in MaxCells(h) : Rank(c) <= Rank(d)

\* The replacement pixel at the wrapped coordinate of position p.
Tiled(replacement, p) ==
    replacement.data[<<p[1] % replacement.rows, p[2] % replacement.cols>>]

RECURSIVE SumOver(_, _)
SumOver(h, cells) ==
    IF cells = {} THEN 0
    ELSE LET c == CHOOSE x \in cells : TRUE
         IN  h[c] + SumOver(h, cells \ {c})

----------------------------------------------------------------------------
(* createColorHistogram *)

\* C1: on return the histogram's cell (i,j,k) equals the number of pixels of
\* the whole image, last row and last column included, whose red, green and
\* blue fall in [64i,64(i+1)), [64j,64(j+1)), [64k,64(k+1)).
C1_HistogramCountsWholeImage ==
    pc = "returned" => hist = WholeHistogram(mem["fg"])

\* C8: at every point of the scan and on return, every cell is a natural
\* number, the histogram is all-zero before the first pixel, every 8-bit
\* channel value has a bucket index in [0,4), the sum of the 64 cells equals
\* the number of pixels visited so far, and each visit adds one to exactly
\* one cell and changes no other.
C8_StateInvariant ==
    /\ hist \in [Cells -> Nat]
    /\ visited = 0 => hist = ZeroHist
    /\ \A v \in 0..255 : Bucket(v) \in 0..3
    /\ SumOver(hist, Cells) = visited
    /\ pc = "scan" => visited = row * Cardinality(0..(mem["fg"].cols - 2)) + col

C8_VisitAddsOne ==
    /\ visited' = visited + 1 =>
          \E cell \in Cells : hist' = [hist EXCEPT ![cell] = @ + 1]
    /\ visited' = visited => hist' = hist

C8_ScanInvariant == [](C8_StateInvariant) /\ [][C8_VisitAddsOne]_vars

\* C8 happens: three pixels visited, in two rows, and two cells non-zero.
C8_Witness ==
    /\ pc = "scan" /\ visited >= 3 /\ row >= 1
    /\ Cardinality({ c \in Cells : hist[c] > 0 }) >= 2

----------------------------------------------------------------------------
(* findMostCommonColor *)

\* C2: called with r = g = b = 0, findMostCommonColor returns
\* (64i+32, 64j+32, 64k+32) for the first cell (i,j,k) in scan order whose
\* count is the maximum of the histogram; (32,32,32) for the all-zero one.
C2_FirstMaxCellMidpoint ==
    (pc = "found" /\ entry = <<0, 0, 0>>) =>
        LET c == FirstMaxCell(hist)
        IN  /\ r = 64 * c[1] + 32
            /\ g = 64 * c[2] + 32
            /\ b = 64 * c[3] + 32
            /\ hist = ZeroHist => (r = 32 /\ g = 32 /\ b = 32)

\* C2 happens: two cells tie for a positive maximum, neither is (0,0,0), and
\* the earlier in scan order has the larger blue index.
C2_Witness ==
    /\ pc = "found" /\ entry = <<0, 0, 0>>
    /\ \E c \in Cells, d \in Cells :
          /\ c # d /\ hist[c] = hist[d] /\ hist[c] > 0 /\ IsMaxCount(hist, hist[c])
          /\ Rank(c) < Rank(d) /\ c[3] > d[3] /\ c[1] < d[1]
          /\ r = 64 * c[1] + 32 /\ b = 64 * c[3] + 32

\* C9: whatever r, g, b hold on entry, each of them on return is idx*64+32
\* for some idx in {0,1,2,3}, hence in [0,256).
C9_ReturnedColourIsMidpoint ==
    pc = "found" =>
        \A x \in {r, g, b} : x \in 0..255 /\ \E idx \in 0..3 : x = idx * 64 + 32

----------------------------------------------------------------------------
(* replaceMostCommonColor: target is buffer "out", replacement is "bg", the *)
(* dominant colour is entry; mem0 holds both as they were before the call   *)

\* C3: for a replacement with a row and a column, after the call every
\* target pixel, in any row and column, whose original channels are each
\* within 64 of the dominant colour equals the replacement pixel at
\* (row mod replacement.rows, col mod replacement.cols).
C3_EveryMatchingPixelReplaced ==
    (pc = "call2" /\ ~ZeroArea(mem0["bg"])) =>
        \A p \in Positions(mem0["out"]) :
            WithinThreshold(mem0["out"].data[p], entry) =>
                mem["out"].data[p] = Tiled(mem0["bg"], p)

\* C5: after the call the target has the rows and columns it had and the
\* replacement is unchanged; every pixel with a channel further than 64 from
\* the dominant colour is as it was; and, the replacement having a row and a
\* column, every pixel is either as it was or the whole replacement pixel at
\* its wrapped coordinate.
C5_ReplaceFrame ==
    pc # "call1" =>
        LET orig == mem0["out"]
            now == mem["out"]
        IN  /\ now.rows = orig.rows /\ now.cols = orig.cols
            /\ DOMAIN now.data = DOMAIN orig.data
            /\ mem["bg"] = mem0["bg"]
            /\ \A p \in Positions(orig) :
                  /\ ~WithinThreshold(orig.data[p], entry) => now.data[p] = orig.data[p]
                  /\ ~ZeroArea(mem0["bg"]) =>
                        now.data[p] \in { orig.data[p], Tiled(mem0["bg"], p) }

\* C5 happens: the call has changed a pixel whose row wraps around the
\* replacement, and has left alone a visited pixel that fails on one channel.
C5_Witness ==
    /\ pc = "call2" /\ ~ZeroArea(mem0["bg"])
    /\ \E p \in Positions(mem0["out"]), q \in Positions(mem0["out"]) :
          /\ mem["out"].data[p] # mem0["out"].data[p]
          /\ p[1] >= mem0["bg"].rows
          /\ mem["out"].data[p] = Tiled(mem0["bg"], p)
          /\ q[1] = 0 /\ q[2] = 0
          /\ entry = <<32, 32, 32>>
          /\ mem0["out"].data[q] = Vec3b(10, 97, 10)
          /\ mem["out"].data[q] = mem0["out"].data[q]

\* C7: a replacement with zero rows or zero columns is detected at entry and
\* reported as EmptyImage: no modulo by zero is evaluated and the call
\* produces no output.
C7_EmptyImageReported ==
    ZeroArea(mem0["bg"]) =>
        /\ ~modZero
        /\ pc # "call1" => pc = "EmptyImage"

\* C10, as claimed: whenever a pixel written by the first run is within the
\* threshold of the dominant colour, the second run changes the image.
C10_SecondRunChangesWhenWritten ==
    (pc = "done" /\ ~ZeroArea(mem0["bg"])) =>
        ((\E p \in Positions(mem0["out"]) :
             /\ mem1["out"].data[p] # mem0["out"].data[p]
             /\ WithinThreshold(mem1["out"].data[p], entry))
         => mem["out"] # mem1["out"])

\* C10, amended: for a replacement with a row and a column, the second run
\* with the same dominant colour and replacement changes nothing, whether or
\* not the pixels written by the first run are within the threshold.
C10_SecondRunChangesNothing ==
    (pc = "done" /\ ~ZeroArea(mem0["bg"])) => mem = mem1

\* C10 happens: the first run wrote a pixel that is itself within the
\* threshold, and the second run has returned.
C10_Witness ==
    /\ pc = "done" /\ ~ZeroArea(mem0["bg"])
    /\ \E p \in Positions(mem0["out"]) :
          /\ mem1["out"].data[p] # mem0["out"].data[p]
          /\ WithinThreshold(mem1["out"].data[p], entry)
          /\ Matches(mem1["out"].data[p], r, g, b)

----------------------------------------------------------------------------
(* createOverlayImage: foreground is buffer "fg", background is "bg" *)

\* C4: for a background with a row and a column, in the returned image every
\* position whose foreground colour falls in the most populated bucket of
\* the whole foreground (first in scan order on a tie) holds the background
\* pixel at (row mod background.rows, col mod background.cols).
C4_DominantBucketReplaced ==
    (pc = "done" /\ ~ZeroArea(mem0["bg"])) =>
        LET cell == FirstMaxCell(WholeHistogram(mem0["fg"]))
        IN  \A p \in Positions(mem0["fg"]) :
                InCell(mem0["fg"].data[p], cell) =>
                    mem[output].data[p] = Tiled(mem0["bg"], p)

\* C6: the foreground and the background hold at every point the pixels they
\* held at entry; the returned image is a buffer of its own with the rows
\* and columns of the foreground.
C6_InputsUntouched ==
    /\ mem["fg"] = mem0["fg"]
    /\ mem["bg"] = mem0["bg"]
    /\ pc = "done" =>
          /\ output \notin {"fg", "bg"}
          /\ mem[output].rows = mem0["fg"].rows
          /\ mem[output].cols = mem0["fg"].cols

\* C6 happens: the call has returned an image that differs from the
\* foreground, made with a background of fewer rows and columns.
C6_Witness ==
    /\ pc = "done"
    /\ mem[output] # mem0["fg"]
    /\ ~ZeroArea(mem0["bg"])
    /\ mem0["bg"].rows < mem0["fg"].rows
    /\ mem0["bg"].cols < mem0["fg"].cols

=============================================================================
